---- MODULE Spec2Model ----
(***************************************************************************)
(* The auto-save / file-management subsystem of the Markdown editor:       *)
(*   src/src/core/editor/auto-save.js   AutoSaveManager                    *)
(*   src/unnamed/part_001               useMarkdownEditor (mount flow,     *)
(*                                      fileManager CRUD)                  *)
(*   src/unnamed/part_000               the file-list component            *)
(*                                                                         *)
(* Strings that the code inspects character by character (file names,      *)
(* which setFileName trims) are sequences of one-character strings.  The   *)
(* empty sequence stands for both null/undefined and "": the code only     *)
(* ever tests such values for truthiness.  File names are ordinary         *)
(* strings, not names of Object.prototype members.                         *)
(*                                                                         *)
(* JavaScript runs one callback to completion at a time, so every handler  *)
(* (a user call, a timer callback) is one atomic action.  Every action     *)
(* records in `last` which handler ran, whether an exception left it and   *)
(* what it returned.                                                       *)
(*                                                                         *)
(* Spec is the whole program on a storage medium that may hold a damaged   *)
(* item and may run out of quota; SpecHealthy is the program on a medium   *)
(* that does neither; SpecLife is the timer lifecycle on the faulty        *)
(* medium, and SpecLifeFair adds the fair firing of the readiness poll;    *)
(* SpecList is the file-list component next to the editor on the healthy   *)
(* medium.                                                                 *)
(***************************************************************************)
EXTENDS Integers, Sequences, FiniteSets, TLC

VARIABLES
    blob,          \* localStorage['md_editor_files']: [kind, files]
    quotaFull,     \* TRUE when localStorage.setItem throws (quota exceeded)
    content,       \* the editor buffer, editorState.content.value
    now,           \* the clock read by new Date()
    phase,         \* component lifecycle: "created", "mounted", "unmounted"
    pollLive,      \* the checkEditorReady interval of onMounted is live
    isInitialized, \* editorState.isInitialized.value
    mgrs,          \* the AutoSaveManager objects still referenced, in order
                   \* of construction; autoSaveManager.value is the last one
    timers,        \* live setInterval handles of managers: [id, owner]
    listFiles,     \* the file-list component's `files` ref
    last           \* the handler that ran last: [op, threw, ret]

vars == <<blob, quotaFull, content, now, phase, pollLive, isInitialized,
          mgrs, timers, listFiles, last>>

----------------------------------------------------------------------------
(* Bounds of the model *)

MaxTime == 1      \* the clock takes the values 0..MaxTime
MaxMgrs == 1      \* managers kept referenced at once (see Kept)
MaxFiles == 2     \* records in the store

----------------------------------------------------------------------------
(* Values *)

NoName == <<>>

\* The names the user passes to the file operations: a plain one and one
\* with leading whitespace.
NameInputs == { <<"a">>, <<" ", "a">> }

\* A name of whitespace only.
BlankName == <<" ">>

\* The editor buffer: empty, or one of two texts.
Contents == { "", "x", "y" }

IsSpace(c) == c = " "

RECURSIVE TrimStart(_)
TrimStart(s) ==
    IF s = <<>> THEN s
    ELSE IF IsSpace(Head(s)) THEN TrimStart(Tail(s)) ELSE s

RECURSIVE TrimEnd(_)
TrimEnd(s) ==
    IF s = <<>> THEN s
    ELSE IF IsSpace(s[Len(s)]) THEN TrimEnd(SubSeq(s, 1, Len(s) - 1)) ELSE s

\* String.prototype.trim
Trim(s) == TrimEnd(TrimStart(s))

\* `未命名文件_${new Date().getTime()}`
AutoName(t) == <<"u", ToString(t)>>

----------------------------------------------------------------------------
(* localStorage *)

EmptyFiles == [k \in {} |-> 0]

MissingBlob == [kind |-> "missing", files |-> EmptyFiles]
CorruptBlob == [kind |-> "corrupt", files |-> EmptyFiles]
ValidBlob(f) == [kind |-> "valid", files |-> f]

\* JSON.parse(localStorage.getItem('md_editor_files') || '{}') and
\* getSavedFiles: a missing item reads as {}, a stored object as itself, and
\* text that is not JSON makes JSON.parse throw.
ParseThrows(b) == b.kind = "corrupt"
ParsedFiles(b) == IF b.kind = "valid" THEN b.files ELSE EmptyFiles

\* files[name] is truthy
HasRecord(f, name) == name \in DOMAIN f

\* files[name] = rec on a fresh object instead of the parsed one.
PutRecordAlone(f, name, rec) == [k \in {name} |-> rec]

\* files[name] = rec
PutRecord(f, name, rec) ==
    [k \in DOMAIN f \cup {name} |-> IF k = name THEN rec ELSE f[k]]

\* delete files[name]
DropRecord(f, name) == [k \in DOMAIN f \ {name} |-> f[k]]

\* The mapping a reader following the design (corrupt reads as "no files")
\* sees in the store.
Store == ParsedFiles(blob)

----------------------------------------------------------------------------
(* AutoSaveManager (auto-save.js).  A manager is [interval, currentFileName]:
   interval is 0 for null, else the handle setInterval returned. *)

\* constructor
NewManager == [interval |-> 0, currentFileName |-> NoName]

\* getFileName: the name it returns
FileNameOf(m, t) ==
    IF m.currentFileName = NoName THEN AutoName(t) ELSE m.currentFileName

\* getFileName: the manager it leaves (the generated name is kept)
GetFileName(m, t) == [m EXCEPT !.currentFileName = FileNameOf(m, t)]

\* setFileName without its trim().
SetFileNameNoTrim(m, name) ==
    IF name # <<>> /\ Trim(name) # <<>>
    THEN [m EXCEPT !.currentFileName = name]
    ELSE m

\* setFileName
SetFileName(m, name) ==
    IF name # <<>> /\ Trim(name) # <<>>
    THEN [m EXCEPT !.currentFileName = Trim(name)]
    ELSE m

\* The record save() writes.
SavedRecord(c, t) == [content |-> c, saveTime |-> t, lastOpenTime |-> t]

\* save() without its `if (!content) return`.
SaveEvenIfEmpty(m, c, b, t, full) ==
    LET m1 == GetFileName(m, t)
        files == PutRecord(ParsedFiles(b), m1.currentFileName,
                           SavedRecord(c, t))
    IN  IF ParseThrows(b) \/ full
        THEN [mgr |-> m1, blob |-> b, threw |-> TRUE]
        ELSE [mgr |-> m1, blob |-> ValidBlob(files), threw |-> FALSE]

\* save(): the manager, the blob and whether an exception leaves the call.
\* c is getContent(), b the blob, t the clock and full whether setItem throws.
Save(m, c, b, t, full) ==
    IF c = ""
    THEN [mgr |-> m, blob |-> b, threw |-> FALSE]
    ELSE LET m1 == GetFileName(m, t)
             files == PutRecord(ParsedFiles(b), m1.currentFileName,
                                SavedRecord(c, t))
         IN  IF ParseThrows(b) \/ full
             THEN [mgr |-> m1, blob |-> b, threw |-> TRUE]
             ELSE [mgr |-> m1, blob |-> ValidBlob(files), threw |-> FALSE]

\* clearInterval(h): no effect on null or on a handle already cleared
ClearInterval(ts, h) == { x \in ts : x.id # h }

\* start() without its `if (this.interval) clearInterval(this.interval)`.
StartStacking(m, i, ts, h, c, b, t, full) ==
    LET r == Save(m, c, b, t, full)
    IN  IF r.threw
        THEN [mgr |-> r.mgr, timers |-> ts, blob |-> r.blob, threw |-> TRUE]
        ELSE [mgr |-> [r.mgr EXCEPT !.interval = h],
              timers |-> ts \cup {[id |-> h, owner |-> i]},
              blob |-> r.blob, threw |-> FALSE]

\* start() without its immediate save().
StartWithoutSave(m, i, ts, h, c, b, t, full) ==
    [mgr |-> [m EXCEPT !.interval = h],
     timers |-> ClearInterval(ts, m.interval) \cup {[id |-> h, owner |-> i]},
     blob |-> b, threw |-> FALSE]

\* start() of manager number i: `if (this.interval) clearInterval(...)`,
\* save(), then setInterval, which returns the handle h.  An exception from
\* save() leaves start() before setInterval runs; this.interval then still
\* holds the cleared handle.
Start(m, i, ts, h, c, b, t, full) ==
    LET cleared == ClearInterval(ts, m.interval)
        r == Save(m, c, b, t, full)
    IN  IF r.threw
        THEN [mgr |-> r.mgr, timers |-> cleared, blob |-> r.blob,
              threw |-> TRUE]
        ELSE [mgr |-> [r.mgr EXCEPT !.interval = h],
              timers |-> cleared \cup {[id |-> h, owner |-> i]},
              blob |-> r.blob, threw |-> FALSE]

\* stop() without its clearInterval(this.interval).
StopKeepsTimer(m, ts) ==
    IF m.interval # 0
    THEN [mgr |-> [m EXCEPT !.interval = 0], timers |-> ts]
    ELSE [mgr |-> m, timers |-> ts]

\* stop()
Stop(m, ts) ==
    IF m.interval # 0
    THEN [mgr |-> [m EXCEPT !.interval = 0],
          timers |-> ClearInterval(ts, m.interval)]
    ELSE [mgr |-> m, timers |-> ts]

----------------------------------------------------------------------------
(* State helpers *)

HasMgr == Len(mgrs) > 0
Cur == Len(mgrs)                    \* index of autoSaveManager.value
CurMgr == mgrs[Cur]

Called(op, threw, ret) == [op |-> op, threw |-> threw, ret |-> ret]

\* The handle the next setInterval call returns.  The browser never hands out
\* a handle twice; the model takes the least one that no manager holds and no
\* live timer has, which no clearInterval can tell from a brand-new one.
FreshHandle ==
    LET used == {mgrs[i].interval : i \in DOMAIN mgrs}
                    \cup {x.id : x \in timers}
    IN  CHOOSE h \in 1..(Cardinality(used) + 1) :
            /\ h \notin used
            /\ \A k \in 1..(h - 1) : k \in used

\* The managers something still refers to once autoSaveManager.value is
\* assigned anew: those whose interval is live (its callback holds them).  The
\* replaced manager is garbage otherwise, and is dropped.
Kept ==
    IF HasMgr /\ \A x \in timers : x.owner # Cur
    THEN SubSeq(mgrs, 1, Cur - 1)
    ELSE mgrs

\* The store stays within the model's bound on records.
Fits(b) == Cardinality(DOMAIN b.files) <= MaxFiles

lifeVars == <<phase, pollLive, isInitialized>>
mgrVars == <<mgrs, timers>>

----------------------------------------------------------------------------
(* Initial state: useMarkdownEditor has run, nothing is mounted yet.  The
   storage item is whatever an earlier session left: absent, or damaged. *)

Init ==
    /\ blob \in {MissingBlob, CorruptBlob}
    /\ quotaFull = FALSE
    /\ content = ""
    /\ now = 0
    /\ phase = "created"
    /\ pollLive = FALSE
    /\ isInitialized = FALSE
    /\ mgrs = <<>>
    /\ timers = {}
    /\ listFiles = EmptyFiles
    /\ last = Called("init", FALSE, "void")

\* The same, on a storage medium that holds no damaged item.
InitHealthy == Init /\ blob = MissingBlob

----------------------------------------------------------------------------
(* Environment *)

\* The user types: the buffer changes.
Edit ==
    /\ phase = "mounted"
    /\ \E c \in Contents : c # content /\ content' = c
    /\ last' = Called("env", FALSE, "void")
    /\ UNCHANGED <<blob, quotaFull, listFiles, now, lifeVars, mgrVars>>

\* Time passes.
AdvanceClock ==
    /\ now < MaxTime
    /\ now' = now + 1
    /\ last' = Called("env", FALSE, "void")
    /\ UNCHANGED <<blob, quotaFull, listFiles, content, lifeVars, mgrVars>>

\* The origin's storage quota is used up: from now on setItem throws.
QuotaFills ==
    /\ ~quotaFull
    /\ quotaFull' = TRUE
    /\ last' = Called("env", FALSE, "void")
    /\ UNCHANGED <<blob, content, now, lifeVars, mgrVars, listFiles>>

\* The editor finishes initializing (useEditorLifecycle sets the flag).
EditorInit ==
    /\ phase # "created"
    /\ ~isInitialized
    /\ isInitialized' = TRUE
    /\ last' = Called("env", FALSE, "void")
    /\ UNCHANGED <<blob, quotaFull, listFiles, content, now,
                   phase, pollLive, mgrVars>>

----------------------------------------------------------------------------
(* Component lifecycle (part_001, useMarkdownEditor) *)

\* onMounted: arm the 100 ms readiness poll.
Mount ==
    /\ phase = "created"
    /\ phase' = "mounted"
    /\ pollLive' = TRUE
    /\ last' = Called("mount", FALSE, "void")
    /\ UNCHANGED <<blob, quotaFull, listFiles, content,
                   now, isInitialized, mgrVars>>

\* One firing of checkEditorReady.  When the editor is ready: initAutoSave()
\* (construct a manager, start it), then clearInterval(checkEditorReady); an
\* exception from start() leaves the callback before the poll is cleared.
PollReady ==
    /\ pollLive
    /\ IF ~isInitialized
       THEN /\ last' = Called("poll", FALSE, "void")
            /\ UNCHANGED <<blob, quotaFull, listFiles, content,
                           now, lifeVars, mgrVars>>
       ELSE /\ Len(Kept) < MaxMgrs
            /\ LET r == Start(NewManager, Len(Kept) + 1, timers, FreshHandle,
                              content, blob, now, quotaFull)
               IN  /\ Fits(r.blob)
                   /\ mgrs' = Append(Kept, r.mgr)
                   /\ timers' = r.timers
                   /\ blob' = r.blob
                   /\ pollLive' = r.threw
                   /\ last' = Called("initAutoSave", r.threw, "void")
            /\ UNCHANGED <<quotaFull, listFiles, content, now,
                           phase, isInitialized>>

\* onUnmounted: autoSaveManager.value?.stop()
Unmount ==
    /\ phase = "mounted"
    /\ phase' = "unmounted"
    /\ IF HasMgr
       THEN LET r == Stop(CurMgr, timers)
            IN  /\ mgrs' = [mgrs EXCEPT ![Cur] = r.mgr]
                /\ timers' = r.timers
       ELSE UNCHANGED <<mgrs, timers>>
    /\ last' = Called("unmount", FALSE, "void")
    /\ UNCHANGED <<blob, quotaFull, listFiles, content,
                   now, pollLive, isInitialized>>

----------------------------------------------------------------------------
(* The exposed manager, autoSaveManager.value, called by the host UI *)

\* autoSaveManager.value.start()
StartCall ==
    /\ phase = "mounted" /\ HasMgr
    /\ LET r == Start(CurMgr, Cur, timers, FreshHandle, content, blob, now,
                      quotaFull)
       IN  /\ Fits(r.blob)
           /\ mgrs' = [mgrs EXCEPT ![Cur] = r.mgr]
           /\ timers' = r.timers
           /\ blob' = r.blob
           /\ last' = Called("start", r.threw, "void")
    /\ UNCHANGED <<quotaFull, listFiles, content, now, lifeVars>>

\* autoSaveManager.value.stop()
StopCall ==
    /\ phase = "mounted" /\ HasMgr
    /\ LET r == Stop(CurMgr, timers)
       IN  /\ mgrs' = [mgrs EXCEPT ![Cur] = r.mgr]
           /\ timers' = r.timers
    /\ last' = Called("stop", FALSE, "void")
    /\ UNCHANGED <<blob, quotaFull, listFiles, content, now, lifeVars>>

\* autoSaveManager.value.save()
SaveCall ==
    /\ phase = "mounted" /\ HasMgr
    /\ LET r == Save(CurMgr, content, blob, now, quotaFull)
       IN  /\ Fits(r.blob)
           /\ mgrs' = [mgrs EXCEPT ![Cur] = r.mgr]
           /\ blob' = r.blob
           /\ last' = Called("save", r.threw, "void")
    /\ UNCHANGED <<quotaFull, listFiles, content, now, lifeVars, timers>>

\* autoSaveManager.value.setFileName(name)
SetFileNameOf(name) ==
    /\ phase = "mounted" /\ HasMgr
    /\ mgrs' = [mgrs EXCEPT ![Cur] = SetFileName(CurMgr, name)]
    /\ last' = Called("setFileName", FALSE, "void")
    /\ UNCHANGED <<blob, quotaFull, listFiles, content, now, lifeVars, timers>>

SetFileNameCall ==
    \E name \in NameInputs \cup {BlankName, NoName} : SetFileNameOf(name)

\* One firing of a manager's interval: the callback calls save() on the
\* manager that armed it.  An exception is thrown into the event loop; the
\* interval stays armed.
Tick ==
    \E h \in timers :
        LET r == Save(mgrs[h.owner], content, blob, now, quotaFull)
        IN  /\ Fits(r.blob)
            /\ mgrs' = [mgrs EXCEPT ![h.owner] = r.mgr]
            /\ blob' = r.blob
            /\ last' = Called("tick", r.threw, "void")
            /\ UNCHANGED <<quotaFull, listFiles, content, now,
                           lifeVars, timers>>

----------------------------------------------------------------------------
(* fileManager (part_001).  Every `autoSaveManager.value?.` call is skipped
   while no manager has been constructed. *)

\* The manager after `autoSaveManager.value?.setFileName(name)`.
Rebound(name) ==
    IF HasMgr THEN [mgrs EXCEPT ![Cur] = SetFileName(CurMgr, name)] ELSE mgrs

\* The record renameFile stores under the new name:
\* { ...files[oldName], saveTime: new Date().toISOString() }
RenamedRecord(rec, t) == [rec EXCEPT !.saveTime = t]

\* renameFile without its `delete files[oldName]`.
RenamedFilesKeepOld(f, oldName, newName, t) ==
    PutRecord(f, newName, [f[oldName] EXCEPT !.saveTime = t])

\* The files renameFile writes back.
RenamedFiles(f, oldName, newName, t) ==
    DropRecord(PutRecord(f, newName, RenamedRecord(f[oldName], t)), oldName)

\* The managers after the tail of renameFile:
\*   if (autoSaveManager.value?.getFileName() === oldName)
\*     autoSaveManager.value?.setFileName(newName)
\* getFileName() gives a manager without a name a generated one.
RenameRebound(oldName, newName, t) ==
    IF HasMgr
    THEN LET m1 == GetFileName(CurMgr, t)
         IN  [mgrs EXCEPT ![Cur] = IF m1.currentFileName = oldName
                                   THEN SetFileName(m1, newName)
                                   ELSE m1]
    ELSE mgrs

\* The names the user opens: one typed in, or one of the files in the store.
Picked == NameInputs \cup DOMAIN Store

\* fileManager.getSavedFiles()
GetSavedFiles ==
    /\ phase = "mounted"
    /\ last' = Called("getSavedFiles", ParseThrows(blob),
                      IF ParseThrows(blob) THEN "void" ELSE "files")
    /\ UNCHANGED <<blob, quotaFull, listFiles, content, now, lifeVars, mgrVars>>

\* fileManager.createNewFile(fileName): the name is the argument or a
\* generated one; the buffer is emptied, the manager renamed and save() called.
\* The name createNewFile returns.
CreatedName(fileName, t) == IF fileName # <<>> THEN fileName ELSE AutoName(t)

\* updateContent(''): the buffer after createNewFile has emptied it.
ClearedContent == ""

CreateNewFileOf(fileName) ==
    /\ phase = "mounted"
    /\ LET name == CreatedName(fileName, now)
           renamed == Rebound(name)
           r == IF HasMgr
                THEN Save(renamed[Cur], ClearedContent, blob, now, quotaFull)
                ELSE [mgr |-> NewManager, blob |-> blob, threw |-> FALSE]
       IN  /\ Fits(r.blob)
           /\ content' = ClearedContent
           /\ mgrs' = IF HasMgr THEN [renamed EXCEPT ![Cur] = r.mgr] ELSE mgrs
           /\ blob' = r.blob
           /\ last' = Called("createNewFile", r.threw, "name")
    /\ UNCHANGED <<quotaFull, listFiles, now, lifeVars, timers>>

CreateNewFile ==
    \E fileName \in NameInputs \cup {BlankName, NoName} :
        CreateNewFileOf(fileName)

\* fileManager.openFile(fileName)
\* openFile without its updateContent(files[fileName].content).
OpenFileNoLoad(fileName) ==
    /\ phase = "mounted"
    /\ IF ParseThrows(blob)
       THEN /\ last' = Called("openFile", TRUE, "void")
            /\ UNCHANGED mgrs
       ELSE /\ last' = Called("openFile", FALSE, "void")
            /\ mgrs' = IF HasRecord(ParsedFiles(blob), fileName)
                       THEN Rebound(fileName) ELSE mgrs
    /\ UNCHANGED <<blob, quotaFull, listFiles, content, now, lifeVars, timers>>

OpenFileOf(fileName) ==
    /\ phase = "mounted"
    /\ IF ParseThrows(blob)
       THEN /\ last' = Called("openFile", TRUE, "void")
            /\ UNCHANGED <<content, mgrs>>
       ELSE LET files == ParsedFiles(blob)
            IN  /\ last' = Called("openFile", FALSE, "void")
                /\ IF HasRecord(files, fileName)
                   THEN /\ content' = files[fileName].content
                        /\ mgrs' = Rebound(fileName)
                   ELSE UNCHANGED <<content, mgrs>>
    /\ UNCHANGED <<blob, quotaFull, listFiles, now, lifeVars, timers>>

OpenFile == \E fileName \in Picked : OpenFileOf(fileName)

\* fileManager.renameFile(oldName, newName)
RenameFileOf(oldName, newName) ==
    /\ phase = "mounted"
    /\ IF oldName = newName
       THEN /\ last' = Called("renameFile", FALSE, "false")
            /\ UNCHANGED <<blob, mgrs>>
       ELSE IF ParseThrows(blob)
       THEN /\ last' = Called("renameFile", TRUE, "void")
            /\ UNCHANGED <<blob, mgrs>>
       ELSE IF ~HasRecord(ParsedFiles(blob), oldName)
       THEN /\ last' = Called("renameFile", FALSE, "false")
            /\ UNCHANGED <<blob, mgrs>>
       ELSE IF quotaFull
       THEN /\ last' = Called("renameFile", TRUE, "void")
            /\ UNCHANGED <<blob, mgrs>>
       ELSE /\ blob' = ValidBlob(RenamedFiles(ParsedFiles(blob), oldName,
                                              newName, now))
            /\ mgrs' = RenameRebound(oldName, newName, now)
            /\ last' = Called("renameFile", FALSE, "true")
    /\ UNCHANGED <<quotaFull, listFiles, content, now, lifeVars, timers>>

RenameFile ==
    \E oldName \in NameInputs, newName \in NameInputs :
        RenameFileOf(oldName, newName)

\* fileManager.deleteFile(fileName)
\* deleteFile without its localStorage.setItem.
DeleteFileNoPersist(fileName) ==
    /\ phase = "mounted"
    /\ IF ParseThrows(blob)
       THEN last' = Called("deleteFile", TRUE, "void")
       ELSE IF ~HasRecord(ParsedFiles(blob), fileName)
       THEN last' = Called("deleteFile", FALSE, "false")
       ELSE last' = Called("deleteFile", FALSE, "true")
    /\ UNCHANGED <<blob, quotaFull, listFiles, content, now, lifeVars, mgrVars>>

DeleteFileOf(fileName) ==
    /\ phase = "mounted"
    /\ IF ParseThrows(blob)
       THEN /\ last' = Called("deleteFile", TRUE, "void")
            /\ UNCHANGED blob
       ELSE IF ~HasRecord(ParsedFiles(blob), fileName)
       THEN /\ last' = Called("deleteFile", FALSE, "false")
            /\ UNCHANGED blob
       ELSE IF quotaFull
       THEN /\ last' = Called("deleteFile", TRUE, "void")
            /\ UNCHANGED blob
       ELSE /\ blob' = ValidBlob(DropRecord(ParsedFiles(blob), fileName))
            /\ last' = Called("deleteFile", FALSE, "true")
    /\ UNCHANGED <<quotaFull, listFiles, content, now, lifeVars, mgrVars>>

DeleteFile == \E fileName \in NameInputs : DeleteFileOf(fileName)

----------------------------------------------------------------------------
(* The file-list component (part_000).  It works on the composable's manager
   (autoSaveManager.value, dereferenced without `?.`: a TypeError while no
   manager has been constructed) and on the editor's buffer, and keeps its own
   copy of the stored mapping in `files`. *)

\* editor.value.setValue(text): the buffer afterwards.
SetValue(text) == text

\* loadFiles(): the component's script setup, which runs when the list is
\* created.
ListSetup ==
    /\ phase = "mounted"
    /\ IF ParseThrows(blob)
       THEN /\ last' = Called("loadFiles", TRUE, "void")
            /\ UNCHANGED listFiles
       ELSE /\ last' = Called("loadFiles", FALSE, "void")
            /\ listFiles' = ParsedFiles(blob)
    /\ UNCHANGED <<blob, quotaFull, content, now, lifeVars, mgrVars>>

\* openFile(name) of the list, for a row the list shows.
ListOpenFileOf(name) ==
    /\ phase = "mounted"
    /\ HasRecord(listFiles, name)
    /\ content' = SetValue(listFiles[name].content)
    /\ IF HasMgr
       THEN /\ mgrs' = [mgrs EXCEPT ![Cur] = SetFileName(CurMgr, name)]
            /\ last' = Called("listOpenFile", FALSE, "void")
       ELSE /\ last' = Called("listOpenFile", TRUE, "void")
            /\ UNCHANGED mgrs
    /\ UNCHANGED <<blob, quotaFull, now, lifeVars, timers, listFiles>>

ListOpenFile == \E name \in DOMAIN listFiles : ListOpenFileOf(name)

\* createNewFile() of the list: empty the buffer, name the manager, save(),
\* loadFiles().
ListCreateNewFile ==
    /\ phase = "mounted"
    /\ content' = SetValue("")
    /\ IF ~HasMgr
       THEN /\ last' = Called("listCreateNewFile", TRUE, "void")
            /\ UNCHANGED <<blob, mgrs, listFiles>>
       ELSE LET named == SetFileName(CurMgr, AutoName(now))
                r == Save(named, content', blob, now, quotaFull)
            IN  /\ Fits(r.blob)
                /\ mgrs' = [mgrs EXCEPT ![Cur] = r.mgr]
                /\ blob' = r.blob
                /\ IF r.threw \/ ParseThrows(r.blob)
                   THEN /\ last' = Called("listCreateNewFile", TRUE, "void")
                        /\ UNCHANGED listFiles
                   ELSE /\ last' = Called("listCreateNewFile", FALSE, "void")
                        /\ listFiles' = ParsedFiles(r.blob)
    /\ UNCHANGED <<quotaFull, now, lifeVars, timers>>

\* The mapping the list's renameFile writes back:
\*   filesData[newName] = filesData[oldName]; delete filesData[oldName]
\* When oldName has no record the value is undefined, and JSON.stringify
\* leaves a key with an undefined value out.
ListRenamedFiles(f, oldName, newName) ==
    IF HasRecord(f, oldName)
    THEN DropRecord(PutRecord(f, newName, f[oldName]), oldName)
    ELSE DropRecord(f, newName)

\* renameFile() of the list; newName is what the user answers to the prompt
\* (null when the prompt is cancelled).
ListRenameFileOf(newName) ==
    /\ phase = "mounted"
    /\ IF ~HasMgr
       THEN /\ last' = Called("listRenameFile", TRUE, "void")
            /\ UNCHANGED <<blob, mgrs, listFiles>>
       ELSE LET m1 == GetFileName(CurMgr, now)
                oldName == m1.currentFileName
            IN  IF newName = NoName \/ newName = oldName
                THEN /\ mgrs' = [mgrs EXCEPT ![Cur] = m1]
                     /\ last' = Called("listRenameFile", FALSE, "void")
                     /\ UNCHANGED <<blob, listFiles>>
                ELSE IF ParseThrows(blob) \/ quotaFull
                THEN /\ mgrs' = [mgrs EXCEPT ![Cur] = m1]
                     /\ last' = Called("listRenameFile", TRUE, "void")
                     /\ UNCHANGED <<blob, listFiles>>
                ELSE /\ blob' = ValidBlob(ListRenamedFiles(ParsedFiles(blob),
                                                           oldName, newName))
                     /\ mgrs' = [mgrs EXCEPT
                                   ![Cur] = SetFileName(m1, newName)]
                     /\ listFiles' = ParsedFiles(blob')
                     /\ last' = Called("listRenameFile", FALSE, "void")
    /\ UNCHANGED <<quotaFull, content, now, lifeVars, timers>>

ListRenameFile ==
    \E newName \in NameInputs \cup {NoName} : ListRenameFileOf(newName)

----------------------------------------------------------------------------
(* Specifications *)

\* The program on a storage medium that neither fills up nor holds a damaged
\* item.
NextHealthy ==
    \/ Edit
    \/ AdvanceClock
    \/ EditorInit
    \/ Mount
    \/ PollReady
    \/ Unmount
    \/ StartCall
    \/ StopCall
    \/ SaveCall
    \/ SetFileNameCall
    \/ Tick
    \/ GetSavedFiles
    \/ CreateNewFile
    \/ OpenFile
    \/ RenameFile
    \/ DeleteFile

\* The whole program, on a medium that may hold a damaged item and may fill
\* up.
Next == NextHealthy \/ QuotaFills

Spec == Init /\ [][Next]_vars

SpecHealthy == InitHealthy /\ [][NextHealthy]_vars

\* The timer lifecycle on the faulty medium: the mount flow, the manager's
\* own operations and the timers.  The file operations left out change
\* neither a timer nor what makes save() throw.
NextLife ==
    \/ Edit
    \/ AdvanceClock
    \/ QuotaFills
    \/ EditorInit
    \/ Mount
    \/ PollReady
    \/ Unmount
    \/ StartCall
    \/ StopCall
    \/ SaveCall
    \/ SetFileNameCall
    \/ Tick

SpecLife == Init /\ [][NextLife]_vars

\* The file list next to the editor, on the healthy medium: the mount flow,
\* the buffer, the saves and the list's own handlers.
NextList ==
    \/ Edit
    \/ AdvanceClock
    \/ EditorInit
    \/ Mount
    \/ PollReady
    \/ SaveCall
    \/ Tick
    \/ ListSetup
    \/ ListOpenFile
    \/ ListCreateNewFile
    \/ ListRenameFile

SpecList == InitHealthy /\ [][NextList]_vars

\* The same with the readiness poll firing fairly: a live setInterval of 100 ms
\* keeps firing, so a firing that would change the state is not put off for
\* ever.
SpecLifeFair == SpecLife /\ WF_vars(PollReady)

----------------------------------------------------------------------------
(* Properties *)

\* Manager number i is Running: the handle it holds is a live timer of its own.
Running(i) == \E x \in timers : x.owner = i /\ x.id = mgrs[i].interval

\* The live timers whose callback saves through manager number i.
TimersOf(i) == {x \in timers : x.owner = i}

CurName == CurMgr.currentFileName

\* The handlers that call save().
SavingOps == {"save", "tick", "start", "initAutoSave", "createNewFile"}

\* The handlers that read the stored item.
ReadingOps == {"getSavedFiles", "save", "tick", "start", "initAutoSave",
               "openFile", "renameFile", "deleteFile"}

\* C1: no error stops the auto-save timer: when the save() inside start() (the
\* host's call, or the one initAutoSave makes) fails, the manager is Running
\* afterwards all the same, and a tick whose save() fails leaves its timer
\* armed.
C1_TimerSurvivesFailure ==
    /\ (last.op \in {"start", "initAutoSave"} /\ last.threw) => Running(Cur)
    /\ (last.op = "tick" /\ last.threw) => timers # {}

\* C2: a manager never has more than one live timer, the one it has is the
\* one its interval field holds, and a start() that returns leaves exactly
\* one, however many start() and stop() calls came before.
C2_AtMostOneTimer ==
    /\ \A i \in DOMAIN mgrs :
          /\ Cardinality(TimersOf(i)) <= 1
          /\ \A x \in TimersOf(i) : x.id = mgrs[i].interval
    /\ \A x \in timers : x.owner \in DOMAIN mgrs
    /\ (last.op = "start" /\ ~last.threw) =>
          /\ Cardinality(TimersOf(Cur)) = 1
          /\ Running(Cur)

\* start() has returned on a manager that held a handle before: it is Running
\* on the second handle, and that is its only timer.
C2_Witness ==
    /\ last.op = "start" /\ ~last.threw
    /\ CurMgr.interval = 2
    /\ TimersOf(Cur) = {[id |-> 2, owner |-> Cur]}

\* C3: once the component is unmounted no auto-save timer is live.
C3_NoTimerAfterUnmount == phase = "unmounted" => timers = {}

\* C4: after createNewFile(name) has returned, the manager's current file
\* name is the name it returned and the store holds a record under it.
C4_CreatedFileIsStored ==
    [][\A fileName \in NameInputs \cup {BlankName, NoName} :
          (HasMgr /\ CreateNewFileOf(fileName) /\ ~last'.threw) =>
              /\ CurName' = CreatedName(fileName, now)
              /\ HasRecord(Store', CreatedName(fileName, now))]_vars

\* C5: a save() that reads an empty buffer changes nothing in the store,
\* whichever handler makes the call.
C5_EmptySaveIsNoOp ==
    [][(last'.op \in SavingOps /\ content' = "") => blob' = blob]_vars

\* An explicit save() has run on an empty buffer while the current file had a
\* record, which is still there with its text.
C5_Witness ==
    /\ last.op = "save" /\ ~last.threw
    /\ content = ""
    /\ HasMgr /\ HasRecord(Store, CurName)
    /\ Store[CurName].content # ""

\* C6: a handler that reads the stored item never throws because of what the
\* item holds (the quota has not run out, so no write fails).
C6_ReadNeverThrows ==
    (last.op \in ReadingOps /\ ~quotaFull) => ~last.threw

\* C7: after renameFile(oldName, newName) has returned true with oldName the
\* manager's current file, the current file name is newName.
C7_RenameRebindsToNewName ==
    [][\A oldName, newName \in NameInputs :
          (/\ HasMgr /\ CurName = oldName
           /\ RenameFileOf(oldName, newName)
           /\ last'.ret = "true") => CurName' = newName]_vars

\* C8: renameFile(oldName, newName) returns false and changes neither store
\* nor manager when oldName has no record or the names are equal; otherwise it
\* returns true, newName's record has oldName's content and lastOpenTime and
\* the current time as saveTime, and oldName has no record.
C8_RenameMovesRecord ==
    [][\A oldName, newName \in NameInputs :
          RenameFileOf(oldName, newName) =>
              IF ~HasRecord(Store, oldName) \/ oldName = newName
              THEN /\ last'.ret = "false" /\ ~last'.threw
                   /\ blob' = blob /\ mgrs' = mgrs /\ timers' = timers
              ELSE /\ last'.ret = "true" /\ ~last'.threw
                   /\ HasRecord(Store', newName)
                   /\ Store'[newName].content = Store[oldName].content
                   /\ Store'[newName].lastOpenTime
                         = Store[oldName].lastOpenTime
                   /\ Store'[newName].saveTime = now
                   /\ ~HasRecord(Store', oldName)]_vars

\* renameFile has returned true at a time later than the record's last save:
\* the record carries the new saveTime and its old lastOpenTime.
C8_Witness ==
    /\ last.op = "renameFile" /\ last.ret = "true"
    /\ \E k \in DOMAIN Store : Store[k].saveTime > Store[k].lastOpenTime

\* C9: deleteFile(name) returns false and leaves the store as it is when name
\* has no record; otherwise it returns true, name's record is gone and every
\* other record is as before.
C9_DeleteRemovesOneRecord ==
    [][\A fileName \in NameInputs :
          DeleteFileOf(fileName) =>
              IF ~HasRecord(Store, fileName)
              THEN /\ last'.ret = "false" /\ ~last'.threw
                   /\ blob' = blob
              ELSE /\ last'.ret = "true" /\ ~last'.threw
                   /\ DOMAIN Store' = DOMAIN Store \ {fileName}
                   /\ \A k \in DOMAIN Store' : Store'[k] = Store[k]]_vars

\* deleteFile has returned true and left another record in the store.
C9_Witness ==
    /\ last.op = "deleteFile" /\ last.ret = "true"
    /\ DOMAIN Store # {}

\* C10: save() with a non-empty buffer x leaves x as the content of the
\* current file's record, and openFile(f), f being the current file name with
\* a record, loads that record's content into the buffer and leaves f the
\* current file name: whatever happens to the buffer between the two, as long
\* as the store is left alone, openFile(f) after save() yields x.
C10_SaveThenOpen ==
    [][/\ (last'.op = "save" /\ content # "") =>
             /\ HasRecord(Store', CurName')
             /\ Store'[CurName'].content = content
       /\ \A f \in Picked :
             (HasMgr /\ CurName = f /\ HasRecord(Store, f) /\ OpenFileOf(f))
                 => /\ content' = Store[f].content
                    /\ CurName' = f]_vars

\* openFile has loaded the current file's record over a buffer that save()
\* had written from.
C10_Witness ==
    /\ last.op = "openFile"
    /\ HasMgr /\ HasRecord(Store, CurName)
    /\ content # "" /\ Store[CurName].content = content

\* C11: openFile(name) for a name without a record changes neither the
\* buffer, nor the manager, nor the timers, nor the store; for a name with a
\* record the buffer becomes the record's content and the manager's current
\* file name becomes name.
C11_OpenFileLoadsOrNothing ==
    [][\A fileName \in Picked :
          OpenFileOf(fileName) =>
              IF ~HasRecord(Store, fileName)
              THEN /\ content' = content /\ mgrs' = mgrs
                   /\ timers' = timers /\ blob' = blob
              ELSE /\ content' = Store[fileName].content
                   /\ HasMgr => CurName' = fileName]_vars

\* A file name as the manager may hold it: unset, or a non-empty string that
\* neither starts nor ends with whitespace.
WellFormedName(n) ==
    n = NoName \/ (~IsSpace(n[1]) /\ ~IsSpace(n[Len(n)]))

\* C12: every manager's currentFileName is unset or non-empty without leading
\* or trailing whitespace, in every state; setFileName(name) with a null, empty
\* or whitespace-only name changes nothing, and with any other name sets
\* currentFileName to the trimmed name and leaves the store, the buffer and
\* the timers as they are.
C12_FileNameTrimmed ==
    /\ [](\A i \in DOMAIN mgrs : WellFormedName(mgrs[i].currentFileName))
    /\ [][\A name \in NameInputs \cup {BlankName, NoName} :
             SetFileNameOf(name) =>
                 /\ blob' = blob /\ timers' = timers /\ content' = content
                 /\ IF name = NoName \/ Trim(name) = <<>>
                    THEN mgrs' = mgrs
                    ELSE mgrs' = [mgrs EXCEPT
                                    ![Cur].currentFileName = Trim(name)]]_vars

\* setFileName has bound a Running manager to the name "a" while the store
\* holds the record saved under the generated name and none under "a".
C12_Witness ==
    /\ last.op = "setFileName"
    /\ HasMgr /\ CurName = <<"a">> /\ Running(Cur)
    /\ DOMAIN Store # {} /\ ~HasRecord(Store, <<"a">>)

\* Manager number i is Stopped: its interval field is null.
Stopped(i) == mgrs[i].interval = 0

\* C13: stop() leaves the manager Stopped with no timer of its own, and
\* changes no timer when the manager had none; a Stopped manager has no timer
\* whose tick could save, and stays Stopped until start() is called; an
\* explicit save() on a Stopped manager still writes the buffer to the store.
C13_StopCancelsTicks ==
    /\ [](\A i \in DOMAIN mgrs : Stopped(i) => TimersOf(i) = {})
    /\ [][/\ StopCall =>
                /\ Stopped(Cur)' /\ TimersOf(Cur)' = {}
                /\ TimersOf(Cur) = {} => timers' = timers
                /\ blob' = blob /\ content' = content
                /\ CurName' = CurName
          /\ (HasMgr /\ Stopped(Cur)
                /\ last'.op \notin {"start", "initAutoSave"}) =>
                /\ Len(mgrs') = Len(mgrs)
                /\ Stopped(Cur)'
          /\ (HasMgr /\ Stopped(Cur) /\ SaveCall
                /\ content # "" /\ ~last'.threw) =>
                /\ HasRecord(Store', CurName')
                /\ Store'[CurName'].content = content]_vars

\* An explicit save() has written the buffer to the store at time 1 through a
\* manager that is Stopped, while no timer is live.
C13_Witness ==
    /\ last.op = "save" /\ ~last.threw
    /\ HasMgr /\ Stopped(Cur) /\ timers = {}
    /\ now = 1 /\ content # ""
    /\ HasRecord(Store, CurName)
    /\ Store[CurName] = SavedRecord(content, 1)

\* C14: when start() has returned (called by the host or by initAutoSave) and
\* the buffer holds a non-empty text, the store already holds, under the
\* manager's file name, the record one save() of that text at that time
\* writes, before any tick has fired, and the manager is Running.
C14_StartSavesFirst ==
    (last.op \in {"start", "initAutoSave"} /\ ~last.threw /\ content # "") =>
        /\ HasMgr /\ Running(Cur)
        /\ CurName # NoName
        /\ HasRecord(Store, CurName)
        /\ Store[CurName] = SavedRecord(content, now)

\* initAutoSave has started a new manager over a buffer with text at time 1:
\* the record is in the store under the generated name, and the timer is armed.
C14_Witness ==
    /\ last.op = "initAutoSave" /\ ~last.threw
    /\ now = 1 /\ content # ""
    /\ HasMgr /\ Running(Cur) /\ CurName = AutoName(1)
    /\ HasRecord(Store, CurName)
    /\ Store[CurName] = SavedRecord(content, 1)

\* The handlers that call setFileName.
RebindingOps == {"setFileName", "createNewFile", "openFile", "renameFile"}

\* C15: save() with a non-empty buffer writes the record of that text under
\* the manager's file name and changes no record under another name; a manager
\* without a name is given the generated one, a manager with a name keeps it;
\* and the name a manager holds is what getFileName() returns at any later
\* time, until a handler that calls setFileName or a new manager replaces it.
C15_SaveWritesOneRecord ==
    [][/\ (HasMgr /\ SaveCall /\ content # "" /\ ~last'.threw) =>
             /\ CurName' = IF CurName = NoName THEN AutoName(now) ELSE CurName
             /\ DOMAIN Store' = DOMAIN Store \cup {CurName'}
             /\ Store'[CurName'] = SavedRecord(content, now)
             /\ \A k \in DOMAIN Store \ {CurName'} : Store'[k] = Store[k]
       /\ (HasMgr /\ CurName # NoName
             /\ last'.op \notin RebindingOps \cup {"initAutoSave"}) =>
             /\ CurName' = CurName
             /\ FileNameOf(CurMgr', now') = CurName]_vars

\* An explicit save() at time 1 has written the current file's record next to
\* a record saved under another name at time 0, which is as it was.
C15_Witness ==
    /\ last.op = "save" /\ ~last.threw
    /\ HasMgr /\ content # "" /\ now = 1
    /\ HasRecord(Store, CurName)
    /\ Store[CurName] = SavedRecord(content, 1)
    /\ \E k \in DOMAIN Store \ {CurName} : Store[k].saveTime = 0

\* C16: a renameFile(oldName, newName) that returns true leaves every record
\* stored under a name other than oldName, the one under newName included, in
\* the store with its content.
C16_RenameKeepsOtherRecords ==
    [][\A oldName, newName \in NameInputs :
          (RenameFileOf(oldName, newName) /\ last'.ret = "true") =>
              \A k \in DOMAIN Store \ {oldName} :
                  /\ HasRecord(Store', k)
                  /\ Store'[k].content = Store[k].content]_vars

\* deleteFile(fileName) has just returned true: the last handler was a
\* deleteFile that returned true, fileName has no record and every other name
\* the user deletes still has one, so fileName is the one that was deleted.
JustDeleted(fileName) ==
    /\ last.op = "deleteFile" /\ last.ret = "true"
    /\ ~HasRecord(Store, fileName)
    /\ \A other \in NameInputs \ {fileName} : HasRecord(Store, other)

\* C18: a deleteFile(name) that returns true changes neither the manager nor
\* the timers, and a timer tick that follows it does not put a record under
\* name back into the store.
C18_DeletedStaysDeleted ==
    [][/\ \A fileName \in NameInputs :
             (DeleteFileOf(fileName) /\ last'.ret = "true") =>
                 mgrs' = mgrs /\ timers' = timers
       /\ \A fileName \in NameInputs :
             (JustDeleted(fileName) /\ last'.op = "tick") =>
                 ~HasRecord(Store', fileName)]_vars

\* C19: initAutoSave runs once per mount: it runs only while no manager has
\* been constructed, and once it has run the readiness poll is cancelled; and
\* while the component stays mounted with the editor initialized, a live poll
\* leads to auto-save being started and the poll being cancelled.
C19_StartedOncePerMount ==
    /\ [](last.op = "initAutoSave" => ~pollLive)
    /\ [][last'.op = "initAutoSave" => ~HasMgr]_vars
    /\ (phase = "mounted" /\ isInitialized /\ pollLive)
          ~> (phase # "mounted" \/ (~pollLive /\ HasMgr /\ Running(Cur)))

\* C17: openFile(name) of the file list puts into the buffer the content the
\* store holds under name at that moment.
C17_ListOpensLatest ==
    [][\A name \in DOMAIN listFiles :
          (ListOpenFileOf(name) /\ HasRecord(Store, name)) =>
              content' = Store[name].content]_vars

====
